---- MODULE Spec2Model ----
(***************************************************************************)
(* Model of fetch_payslips.py: the polling main loop, the sleep            *)
(* calculation (next_tuesday_at_10, next_valid_wakeup) and the mailbox     *)
(* processing procedure process_mailbox.                                   *)
(*                                                                         *)
(* Time.  A datetime is an integer number of ticks since Monday 00:00 of   *)
(* the week in which the behaviour starts; one minute is TicksPerMinute    *)
(* ticks, so that instants strictly between 23:59:00 and 24:00:00 exist.   *)
(* The code depends on a datetime only through its weekday and its time of *)
(* day, so the clock is kept modulo one week.                              *)
(***************************************************************************)
EXTENDS Integers, Sequences, FiniteSets, TLC

\* ---------------------------------------------------------------- bounds
TicksPerMinute == 2
MaxElapse == 3
MaxMsgs == 2

\* ------------------------------------------------- configuration (l.15-33)
CHECK_INTERVAL_SECONDS == 7200
WINDOW_START_HOUR == 10
WINDOW_START_MINUTE == 0
WINDOW_END_HOUR == 23
WINDOW_END_MINUTE == 59
VALID_WEEKDAYS == {1, 2, 3}

\* ---------------------------------------------------- datetime arithmetic
TicksPerDay == 24 * 60 * TicksPerMinute
TicksPerWeek == 7 * TicksPerDay

\* datetime.time(h, m)
dtime(h, m) == (h * 60 + m) * TicksPerMinute
\* datetime.weekday(): Monday = 0 ... Sunday = 6
weekday(t) == (t \div TicksPerDay) % 7
\* datetime.time(): the time of day
timeOf(t) == t % TicksPerDay
\* datetime.date(): the day number
dateOf(t) == t \div TicksPerDay
\* datetime.combine(date, time)
combine(d, tm) == d * TicksPerDay + tm
\* timedelta(seconds = s)
timedelta_seconds(s) == (s * TicksPerMinute) \div 60

WINDOW_START == dtime(WINDOW_START_HOUR, WINDOW_START_MINUTE)
WINDOW_END == dtime(WINDOW_END_HOUR, WINDOW_END_MINUTE)

\* in_window with the end of the window left out
in_window_strict(now) ==
    /\ weekday(now) \in VALID_WEEKDAYS
    /\ WINDOW_START <= timeOf(now)
    /\ timeOf(now) < WINDOW_END

\* the test of the main loop, line 179
in_window(now) ==
    /\ weekday(now) \in VALID_WEEKDAYS
    /\ WINDOW_START <= timeOf(now)
    /\ timeOf(now) <= WINDOW_END

\* next_tuesday_at_10 without the step to the following week
next_tuesday_at_10_same_week(now) ==
    combine(dateOf(now) + ((1 - weekday(now)) % 7), WINDOW_START)

next_tuesday_at_10(now) ==
    LET d0 == (1 - weekday(now)) % 7
        days_ahead == IF d0 = 0 /\ timeOf(now) >= WINDOW_START THEN 7 ELSE d0
    IN  combine(dateOf(now) + days_ahead, WINDOW_START)

\* next_valid_wakeup taking the last minute of the window as after it
next_valid_wakeup_early_end(now) ==
    IF weekday(now) \notin VALID_WEEKDAYS
        THEN next_tuesday_at_10(now)
    ELSE IF timeOf(now) < WINDOW_START
        THEN combine(dateOf(now), WINDOW_START)
    ELSE IF timeOf(now) >= WINDOW_END
        THEN combine(dateOf(now) + 1, WINDOW_START)
    ELSE now + timedelta_seconds(CHECK_INTERVAL_SECONDS)

\* next_valid_wakeup going to the next week once today's window is over
next_valid_wakeup_next_week(now) ==
    IF weekday(now) \notin VALID_WEEKDAYS
        THEN next_tuesday_at_10(now)
    ELSE IF timeOf(now) < WINDOW_START
        THEN combine(dateOf(now), WINDOW_START)
    ELSE IF timeOf(now) > WINDOW_END
        THEN next_tuesday_at_10(now)
    ELSE now + timedelta_seconds(CHECK_INTERVAL_SECONDS)

next_valid_wakeup(now) ==
    IF weekday(now) \notin VALID_WEEKDAYS
        THEN next_tuesday_at_10(now)
    ELSE IF timeOf(now) < WINDOW_START
        THEN combine(dateOf(now), WINDOW_START)
    ELSE IF timeOf(now) > WINDOW_END
        THEN combine(dateOf(now) + 1, WINDOW_START)
    ELSE now + timedelta_seconds(CHECK_INTERVAL_SECONDS)

\* ------------------------------------------------------------ text helpers
\* str.lower() on the characters that occur in the modelled file names
LowerChar(c) ==
    CASE c = "P" -> "p"
      [] c = "D" -> "d"
      [] c = "F" -> "f"
      [] OTHER -> c

lower(s) == [i \in 1..Len(s) |-> LowerChar(s[i])]

\* str.endswith(suffix)
endswith(s, suf) ==
    /\ Len(s) >= Len(suf)
    /\ SubSeq(s, Len(s) - Len(suf) + 1, Len(s)) = suf

\* the bytes "in" operator: needle occurs as a contiguous run of hay
contains(hay, needle) ==
    \E i \in 1..(Len(hay) - Len(needle) + 1) :
        SubSeq(hay, i, i + Len(needle) - 1) = needle

DOT_PDF == <<".", "p", "d", "f">>

\* not_pdf comparing the file name as it is spelt
not_pdf_case(filename) == filename = <<>> \/ ~endswith(filename, DOT_PDF)

\* line 144: the attachment is skipped
not_pdf(filename) == filename = <<>> \/ ~endswith(lower(filename), DOT_PDF)

\* ------------------------------------------------------------ the mailbox
\* Label names are sequences of name fragments.
GMAIL_PROCESSED_LABEL == <<"Payslips", "/", "Processed">>
OTHER_LABEL == <<"Inbox">>

\* File names are sequences of characters; <<>> is a part without a name.
FN_a_pdf == <<"a", ".", "p", "d", "f">>
FN_b_PDF == <<"b", ".", "P", "D", "F">>
FN_c_txt == <<"c", ".", "t", "x", "t">>
FN_none == <<>>

\* An attachment: its file name, whether qpdf, run with PDF_PASSWORD on its
\* payload, exits with status 0 (decrypt_pdf returns) or not (raises), and
\* whether a qpdf that does not exit with 0 has written its output file all
\* the same (qpdf's exit status for warnings).
Att(fn, good) == [filename |-> fn, ok |-> good, leaves |-> FALSE]

AttLeaving(fn) == [filename |-> fn, ok |-> FALSE, leaves |-> TRUE]

Msg(ps, ls) == [parts |-> ps, labels |-> ls]

\* The messages a mailbox is made of: one or two PDFs that decrypt or do not,
\* in either order, parts that are no PDF, a PDF whose failed decryption
\* leaves a file, and messages that carry the processed label already, alone
\* or among other labels.
Messages ==
    { Msg(<<Att(FN_a_pdf, TRUE)>>, {}),
      Msg(<<Att(FN_b_PDF, FALSE)>>, {OTHER_LABEL}),
      Msg(<<Att(FN_b_PDF, FALSE), Att(FN_a_pdf, TRUE)>>, {}),
      Msg(<<Att(FN_b_PDF, TRUE), Att(FN_a_pdf, FALSE)>>, {OTHER_LABEL}),
      Msg(<<Att(FN_c_txt, TRUE), Att(FN_none, TRUE)>>, {}),
      Msg(<<AttLeaving(FN_b_PDF)>>, {}),
      Msg(<<Att(FN_a_pdf, TRUE)>>, {GMAIL_PROCESSED_LABEL}),
      Msg(<<Att(FN_b_PDF, FALSE), Att(FN_a_pdf, TRUE)>>,
          {OTHER_LABEL, GMAIL_PROCESSED_LABEL}) }

\* The messages of GMAIL_LABEL sent by SENDER_EMAIL, in arrival order; the
\* IMAP message id of a message is its position.
Mailboxes == UNION { [1..n -> Messages] : n \in 0..MaxMsgs }

\* The X-GM-LABELS response for a label set, as one byte string: the labels
\* in some order, separated by blanks, within parentheses.
RECURSIVE LabelList(_)
LabelList(ls) ==
    IF ls = {} THEN <<>>
    ELSE LET l == CHOOSE x \in ls : TRUE
         IN  <<" ">> \o l \o LabelList(ls \ {l})

label_response(ls) == <<"(X-GM-LABELS", "(">> \o LabelList(ls) \o <<")", ")">>

\* has_processed_label by equality with the response of the marker alone
has_processed_label_exact(label_bytes) ==
    label_bytes = label_response({GMAIL_PROCESSED_LABEL})

\* line 134: the message is taken as already processed
has_processed_label(label_bytes) == contains(label_bytes, GMAIL_PROCESSED_LABEL)

\* the ids in the order of the search, not turned round
reversed_not(s) == s

\* messages[0].split()[::-1] for a mailbox of n messages
RECURSIVE reversed(_)
reversed(s) == IF s = <<>> THEN <<>> ELSE reversed(Tail(s)) \o <<Head(s)>>

search_ids(mb) == [i \in 1..Len(mb) |-> i]

\* ================================================================== state
VARIABLES
    clock,          \* the wall clock, what datetime.now() returns
    now,            \* the main loop's local "now" (line 177)
    wake,           \* the target handed to sleep_until
    lastOutcome,    \* why the loop computed wake: success, nothing, error, outside
    pc,             \* position of the single thread of control
    mailbox,        \* the messages and their labels, kept by the mail server
    sink,           \* names of the files in CONSUME_DIR
    staging,        \* names of the files in TMP_DIR
    conn,           \* state of the IMAP session of the current call
    msg_ids,        \* ids the for loop of line 128 has not visited yet
    msg_id,         \* the id the for loop is at
    part_idx,       \* position of the attachment iterator of line 142
    file_processed_in_msg,
    processed_any,
    result,         \* how the last call of process_mailbox ended
    trace,          \* the mailbox and file operations of the current call
    decrypted,      \* <<id, part>> decrypted into the sink by any call so far
    twice,          \* some <<id, part>> was decrypted into the sink again
    prevResult,     \* result of the call before the current one
    prevSink,       \* sink as the current call found it
    startLabels,    \* labels of each message as the current call found them
    prevCount,      \* number of messages the call before the current one found
    owedFrom        \* start of the first window still to be called in

loopVars == <<clock, now, wake, lastOutcome, owedFrom>>
worldVars == <<mailbox, sink, staging>>
localVars == <<conn, msg_ids, msg_id, part_idx, file_processed_in_msg, processed_any>>
histVars == <<trace, decrypted, twice, prevResult, prevSink, startLabels, prevCount>>
vars == <<clock, now, wake, lastOutcome, pc, mailbox, sink, staging, conn,
          msg_ids, msg_id, part_idx, file_processed_in_msg, processed_any,
          result, trace, decrypted, twice, prevResult, prevSink, startLabels,
          prevCount, owedFrom>>

Ev(o, i, p) == [op |-> o, id |-> i, part |-> p]

parts == mailbox[msg_id].parts

InitCommon ==
    /\ wake = 0
    /\ lastOutcome = "none"
    /\ sink = {}
    /\ staging = {}
    /\ conn = "none"
    /\ msg_ids = <<>>
    /\ msg_id = 0
    /\ part_idx = 0
    /\ file_processed_in_msg = FALSE
    /\ processed_any = FALSE
    /\ result = "none"
    /\ trace = <<>>
    /\ decrypted = {}
    /\ twice = FALSE
    /\ prevResult = "none"
    /\ prevSink = {}
    /\ startLabels = <<>>
    /\ prevCount = 0

\* ------------------------------------------------------- process_mailbox
\* entry of process_mailbox (line 101): fresh locals
enter_process_mailbox ==
    /\ pc' = "connect"
    /\ conn' = "none"
    /\ msg_ids' = <<>>
    /\ msg_id' = 0
    /\ part_idx' = 0
    /\ file_processed_in_msg' = FALSE
    /\ processed_any' = FALSE
    /\ trace' = <<>>
    /\ prevResult' = result
    /\ prevSink' = sink
    /\ startLabels' = [i \in 1..Len(mailbox) |-> mailbox[i].labels]
    /\ prevCount' = Len(startLabels)
    /\ result' = "none"
    /\ UNCHANGED <<worldVars, decrypted, twice>>

\* an exception leaves process_mailbox: nothing of lines 116, 121, 167 runs
raise_error ==
    /\ pc' = "raised"
    /\ result' = "raised"

\* line 107: imaplib.IMAP4_SSL(IMAP_SERVER)
pm_connect ==
    /\ pc = "connect"
    /\ \/ /\ conn' = "connected"
          /\ pc' = "login"
          /\ UNCHANGED result
       \/ /\ raise_error
          /\ UNCHANGED conn
    /\ UNCHANGED <<loopVars, worldVars, msg_ids, msg_id, part_idx,
                   file_processed_in_msg, processed_any, histVars>>

\* line 108: mail.login
pm_login ==
    /\ pc = "login"
    /\ \/ /\ conn' = "authenticated"
          /\ pc' = "select"
          /\ UNCHANGED result
       \/ /\ raise_error
          /\ UNCHANGED conn
    /\ UNCHANGED <<loopVars, worldVars, msg_ids, msg_id, part_idx,
                   file_processed_in_msg, processed_any, histVars>>

\* line 109: mail.select
pm_select ==
    /\ pc = "select"
    /\ \/ /\ pc' = "search"
          /\ UNCHANGED result
       \/ raise_error
    /\ UNCHANGED <<loopVars, worldVars, localVars, histVars>>

\* lines 112-126: mail.search and the two early returns
pm_search ==
    /\ pc = "search"
    /\ \/ \* status = "OK"
          IF search_ids(mailbox) = <<>>
            THEN /\ conn' = "logged_out"
                 /\ result' = "False"
                 /\ pc' = "returned"
                 /\ UNCHANGED <<msg_ids, processed_any, trace>>
            ELSE /\ msg_ids' = reversed(search_ids(mailbox))
                 /\ processed_any' = FALSE
                 /\ pc' = "for_msg"
                 /\ trace' = Append(trace, Ev("search", 0, 0))
                 /\ UNCHANGED <<conn, result>>
       \/ \* status # "OK"
          /\ conn' = "logged_out"
          /\ result' = "False"
          /\ pc' = "returned"
          /\ UNCHANGED <<msg_ids, processed_any, trace>>
       \/ /\ raise_error
          /\ UNCHANGED <<conn, msg_ids, processed_any, trace>>
    /\ UNCHANGED <<loopVars, worldVars, msg_id, part_idx,
                   file_processed_in_msg, decrypted, twice, prevResult,
                   prevSink, startLabels, prevCount>>

\* pm_for_msg returning what the last message examined gave
pm_for_msg_last ==
    /\ pc = "for_msg"
    /\ IF msg_ids = <<>>
         THEN /\ conn' = "logged_out"
              /\ result' = IF file_processed_in_msg THEN "True" ELSE "False"
              /\ pc' = "returned"
              /\ UNCHANGED <<msg_ids, msg_id>>
         ELSE /\ msg_id' = Head(msg_ids)
              /\ msg_ids' = Tail(msg_ids)
              /\ pc' = "fetch_labels"
              /\ UNCHANGED <<conn, result>>
    /\ UNCHANGED <<loopVars, worldVars, part_idx, file_processed_in_msg,
                   processed_any, histVars>>

\* line 128: the for loop over msg_ids; lines 167-168 when it is exhausted
pm_for_msg ==
    /\ pc = "for_msg"
    /\ IF msg_ids = <<>>
         THEN /\ conn' = "logged_out"
              /\ result' = IF processed_any THEN "True" ELSE "False"
              /\ pc' = "returned"
              /\ UNCHANGED <<msg_ids, msg_id>>
         ELSE /\ msg_id' = Head(msg_ids)
              /\ msg_ids' = Tail(msg_ids)
              /\ pc' = "fetch_labels"
              /\ UNCHANGED <<conn, result>>
    /\ UNCHANGED <<loopVars, worldVars, part_idx, file_processed_in_msg,
                   processed_any, histVars>>

\* lines 130-135: fetch X-GM-LABELS and skip a processed message
pm_fetch_labels ==
    /\ pc = "fetch_labels"
    /\ \/ /\ IF has_processed_label(label_response(mailbox[msg_id].labels))
               THEN /\ pc' = "for_msg"
                    /\ trace' = Append(trace, Ev("skip", msg_id, 0))
               ELSE /\ pc' = "fetch_body"
                    /\ trace' = Append(trace, Ev("labels", msg_id, 0))
          /\ UNCHANGED result
       \/ /\ raise_error
          /\ UNCHANGED trace
    /\ UNCHANGED <<loopVars, worldVars, localVars, decrypted, twice,
                   prevResult, prevSink, startLabels, prevCount>>

\* lines 137-141: fetch RFC822, parse it
pm_fetch_body ==
    /\ pc = "fetch_body"
    /\ \/ /\ file_processed_in_msg' = FALSE
          /\ part_idx' = 1
          /\ pc' = "for_part"
          /\ trace' = Append(trace, Ev("body", msg_id, 0))
          /\ UNCHANGED result
       \/ /\ raise_error
          /\ UNCHANGED <<file_processed_in_msg, part_idx, trace>>
    /\ UNCHANGED <<loopVars, worldVars, conn, msg_ids, msg_id, processed_any,
                   decrypted, twice, prevResult, prevSink, startLabels,
                   prevCount>>

\* after_parts that marks the message whatever happened
after_parts_always(processed) == "store"

\* line 163: the label is stored only if an attachment was processed
after_parts(processed) == IF processed THEN "store" ELSE "for_msg"

\* lines 142-145 and 163: the for loop over the attachments
pm_for_part ==
    /\ pc = "for_part"
    /\ IF part_idx > Len(parts)
         THEN /\ pc' = after_parts(file_processed_in_msg)
              /\ UNCHANGED part_idx
         ELSE IF not_pdf(parts[part_idx].filename)
                THEN /\ part_idx' = part_idx + 1
                     /\ pc' = "for_part"
                ELSE /\ pc' = "write_staging"
                     /\ UNCHANGED part_idx
    /\ UNCHANGED <<loopVars, worldVars, conn, msg_ids, msg_id,
                   file_processed_in_msg, processed_any, result, histVars>>

\* lines 147-150: encrypted.write_bytes, outside the try
pm_write_staging ==
    /\ pc = "write_staging"
    /\ \/ /\ staging' = staging \cup {parts[part_idx].filename}
          /\ pc' = "decrypt"
          /\ trace' = Append(trace, Ev("stage", msg_id, part_idx))
          /\ UNCHANGED result
       \/ /\ raise_error
          /\ trace' = Append(trace, Ev("stage_fail", msg_id, part_idx))
          /\ UNCHANGED staging
    /\ UNCHANGED <<loopVars, mailbox, sink, localVars, decrypted, twice,
                   prevResult, prevSink, startLabels, prevCount>>

\* pm_decrypt where a failure gives up the remaining attachments
pm_decrypt_break ==
    /\ pc = "decrypt"
    /\ IF parts[part_idx].ok
         THEN /\ sink' = sink \cup {parts[part_idx].filename}
              /\ staging' = staging \ {parts[part_idx].filename}
              /\ file_processed_in_msg' = TRUE
              /\ processed_any' = TRUE
              /\ trace' = Append(trace, Ev("decrypt_ok", msg_id, part_idx))
              /\ decrypted' = decrypted \cup {<<msg_id, part_idx>>}
              /\ twice' = (twice \/ <<msg_id, part_idx>> \in decrypted)
              /\ part_idx' = part_idx + 1
         ELSE /\ trace' = Append(trace, Ev("decrypt_fail", msg_id, part_idx))
              /\ part_idx' = Len(parts) + 1
              /\ sink' = IF parts[part_idx].leaves
                           THEN sink \cup {parts[part_idx].filename}
                           ELSE sink
              /\ UNCHANGED <<staging, file_processed_in_msg,
                             processed_any, decrypted, twice>>
    /\ pc' = "for_part"
    /\ UNCHANGED <<loopVars, mailbox, conn, msg_ids, msg_id, result,
                   prevResult, prevSink, startLabels, prevCount>>

\* pm_decrypt storing the label as soon as an attachment is decrypted
pm_decrypt_store_now ==
    /\ pc = "decrypt"
    /\ IF parts[part_idx].ok
         THEN /\ sink' = sink \cup {parts[part_idx].filename}
              /\ staging' = staging \ {parts[part_idx].filename}
              /\ file_processed_in_msg' = TRUE
              /\ processed_any' = TRUE
              /\ mailbox' = [mailbox EXCEPT
                                ![msg_id].labels = @ \cup {GMAIL_PROCESSED_LABEL}]
              /\ trace' = trace \o <<Ev("decrypt_ok", msg_id, part_idx),
                                     Ev("store", msg_id, 0)>>
              /\ decrypted' = decrypted \cup {<<msg_id, part_idx>>}
              /\ twice' = (twice \/ <<msg_id, part_idx>> \in decrypted)
         ELSE /\ trace' = Append(trace, Ev("decrypt_fail", msg_id, part_idx))
              /\ sink' = IF parts[part_idx].leaves
                           THEN sink \cup {parts[part_idx].filename}
                           ELSE sink
              /\ UNCHANGED <<mailbox, staging, file_processed_in_msg,
                             processed_any, decrypted, twice>>
    /\ part_idx' = part_idx + 1
    /\ pc' = "for_part"
    /\ UNCHANGED <<loopVars, conn, msg_ids, msg_id, result,
                   prevResult, prevSink, startLabels, prevCount>>

\* lines 152-161: decrypt_pdf within try/except
pm_decrypt ==
    /\ pc = "decrypt"
    /\ IF parts[part_idx].ok
         THEN /\ sink' = sink \cup {parts[part_idx].filename}
              /\ staging' = staging \ {parts[part_idx].filename}
              /\ file_processed_in_msg' = TRUE
              /\ processed_any' = TRUE
              /\ trace' = Append(trace, Ev("decrypt_ok", msg_id, part_idx))
              /\ decrypted' = decrypted \cup {<<msg_id, part_idx>>}
              /\ twice' = (twice \/ <<msg_id, part_idx>> \in decrypted)
         ELSE /\ trace' = Append(trace, Ev("decrypt_fail", msg_id, part_idx))
              /\ sink' = IF parts[part_idx].leaves
                           THEN sink \cup {parts[part_idx].filename}
                           ELSE sink
              /\ UNCHANGED <<staging, file_processed_in_msg,
                             processed_any, decrypted, twice>>
    /\ part_idx' = part_idx + 1
    /\ pc' = "for_part"
    /\ UNCHANGED <<loopVars, mailbox, conn, msg_ids, msg_id, result,
                   prevResult, prevSink, startLabels, prevCount>>

\* store_label that stores nothing
store_label_nothing(ls) == ls

\* the effect of +X-GM-LABELS on the label set of a message
store_label(ls) == ls \cup {GMAIL_PROCESSED_LABEL}

\* line 165: mail.store +X-GM-LABELS
pm_store ==
    /\ pc = "store"
    /\ \/ /\ mailbox' = [mailbox EXCEPT ![msg_id].labels = store_label(@)]
          /\ pc' = "for_msg"
          /\ trace' = Append(trace, Ev("store", msg_id, 0))
          /\ UNCHANGED result
       \/ /\ raise_error
          /\ UNCHANGED <<mailbox, trace>>
    /\ UNCHANGED <<loopVars, sink, staging, localVars, decrypted, twice,
                   prevResult, prevSink, startLabels, prevCount>>

process_mailbox ==
    \/ pm_connect
    \/ pm_login
    \/ pm_select
    \/ pm_search
    \/ pm_for_msg
    \/ pm_fetch_labels
    \/ pm_fetch_body
    \/ pm_for_part
    \/ pm_write_staging
    \/ pm_decrypt
    \/ pm_store

\* ------------------------------------------------------------- main loop
Max(a, b) == IF a >= b THEN a ELSE b

\* lines 176-182: read the clock, test the window, call process_mailbox
\* The start of the first window that begins at t or later: what line 179
\* has to find true next, seen from t.
owed_window(t) ==
    LET starts == { x \in { combine(d, WINDOW_START) :
                               d \in dateOf(t)..(dateOf(t) + 7) } :
                      x >= t /\ weekday(x) \in VALID_WEEKDAYS }
    IN  CHOOSE x \in starts : \A y \in starts : x <= y

loop_top ==
    /\ pc = "top"
    /\ \E d \in 0..MaxElapse :
         LET n == (clock + d) % TicksPerWeek
         IN  /\ clock' = n
             /\ now' = n
             /\ wake' = 0
             /\ IF in_window(n)
                  THEN /\ enter_process_mailbox
                       /\ lastOutcome' = "none"
                       /\ owedFrom' = owed_window(combine(dateOf(n), WINDOW_END) + 1)
                  ELSE /\ pc' = "calc_wakeup"
                       /\ lastOutcome' = "outside"
                       /\ owedFrom' = Max(owedFrom - ((clock + d) - n),
                                          0 - TicksPerWeek)
                       /\ UNCHANGED <<worldVars, localVars, result, histVars>>

\* process_mailbox is over and its outcome taken: its frame is gone, and so
\* is what was recorded about the call
forget_call ==
    /\ msg_ids' = <<>>
    /\ msg_id' = 0
    /\ part_idx' = 0
    /\ file_processed_in_msg' = FALSE
    /\ processed_any' = FALSE
    /\ result' = "none"
    /\ trace' = <<>>
    /\ prevResult' = "none"
    /\ prevSink' = {}
    /\ startLabels' = <<>>
    /\ prevCount' = 0
    /\ UNCHANGED <<conn, decrypted, twice>>

\* lines 183-186: success, sleep until the next Tuesday window
loop_success ==
    /\ pc = "returned"
    /\ result = "True"
    /\ \E d \in 0..MaxElapse :
         /\ clock' = clock + d
         /\ wake' = next_tuesday_at_10(clock + d)
         /\ owedFrom' = next_tuesday_at_10(clock + d)
    /\ lastOutcome' = "success"
    /\ pc' = "sleep"
    /\ forget_call
    /\ UNCHANGED <<now, worldVars>>

\* lines 187-191: nothing found, or an exception caught and logged, or
\* outside the window: the normal sleep schedule
loop_normal ==
    /\ \/ /\ pc = "returned"
          /\ result = "False"
          /\ lastOutcome' = "nothing"
       \/ /\ pc = "raised"
          /\ lastOutcome' = "error"
       \/ /\ pc = "calc_wakeup"
          /\ UNCHANGED lastOutcome
    /\ \E d \in 0..MaxElapse :
         /\ clock' = clock + d
         /\ wake' = next_valid_wakeup(clock + d)
    /\ pc' = "sleep"
    /\ forget_call
    /\ UNCHANGED <<now, worldVars, owedFrom>>

\* lines 47-50: sleep until the target, or not at all when it has passed
sleep_until ==
    /\ pc = "sleep"
    /\ \E d \in 0..MaxElapse : clock' = Max(wake, clock + d)
    /\ pc' = "top"
    /\ UNCHANGED <<now, wake, lastOutcome, owedFrom, worldVars, localVars,
                   result, histVars>>

\* A loop iteration that finds the clock inside the window, the clock left
\* out: lines 179-182.
call_process_mailbox ==
    /\ pc \in {"idle", "returned", "raised"}
    /\ enter_process_mailbox
    /\ UNCHANGED loopVars

\* The process is stopped at any point and started again (line 175): the
\* locals are lost, the mailbox and the directories are kept.
restart ==
    /\ pc \notin {"idle"}
    /\ pc' = "idle"
    /\ conn' = "none"
    /\ msg_ids' = <<>>
    /\ msg_id' = 0
    /\ part_idx' = 0
    /\ file_processed_in_msg' = FALSE
    /\ processed_any' = FALSE
    /\ result' = "none"
    /\ UNCHANGED <<loopVars, worldVars, histVars>>

\* A message of the sender arrives in the label, between two calls.
new_mail ==
    /\ pc \in {"idle", "returned", "raised"}
    /\ Len(mailbox) < MaxMsgs
    /\ \E m \in Messages : mailbox' = Append(mailbox, m)
    /\ UNCHANGED <<loopVars, pc, sink, staging, localVars, result, histVars>>

\* ---------------------------------------------------------- specifications
\* The mailbox processing, called again and again.
Init ==
    /\ InitCommon
    /\ pc = "idle"
    /\ clock = 0
    /\ now = 0
    /\ owedFrom = 0
    /\ mailbox \in Mailboxes

Next ==
    \/ call_process_mailbox
    \/ process_mailbox
    \/ restart
    \/ new_mail

Spec == Init /\ [][Next]_vars

\* The mailbox processing over mailboxes whose messages carry a label the
\* name of which begins with the name of the processed label.
LONGER_LABEL == GMAIL_PROCESSED_LABEL \o <<"-", "Archive">>

LabelMessages ==
    { Msg(<<Att(FN_a_pdf, TRUE)>>, {}),
      Msg(<<Att(FN_a_pdf, TRUE)>>, {LONGER_LABEL}),
      Msg(<<Att(FN_b_PDF, FALSE)>>, {OTHER_LABEL, LONGER_LABEL}),
      Msg(<<Att(FN_a_pdf, TRUE)>>, {GMAIL_PROCESSED_LABEL}) }

LabelMailboxes == UNION { [1..n -> LabelMessages] : n \in 0..MaxMsgs }

InitLabels ==
    /\ InitCommon
    /\ pc = "idle"
    /\ clock = 0
    /\ now = 0
    /\ owedFrom = 0
    /\ mailbox \in LabelMailboxes

SpecLabels == InitLabels /\ [][Next]_vars

\* The main loop with its clock, over a few mailboxes.
LoopMailboxes ==
    { <<>>,
      <<Msg(<<Att(FN_a_pdf, TRUE)>>, {})>>,
      <<Msg(<<Att(FN_b_PDF, FALSE)>>, {OTHER_LABEL})>>,
      <<Msg(<<Att(FN_a_pdf, TRUE)>>, {OTHER_LABEL, GMAIL_PROCESSED_LABEL})>> }

InitLoop ==
    /\ InitCommon
    /\ pc = "top"
    /\ clock \in 0..(TicksPerWeek - 1)
    /\ now = clock
    /\ owedFrom = owed_window(clock)
    /\ mailbox \in LoopMailboxes

NextLoop ==
    \/ loop_top
    \/ process_mailbox
    \/ loop_success
    \/ loop_normal
    \/ sleep_until

SpecLoop == InitLoop /\ [][NextLoop]_vars

\* ================================================================ claims
\* ---- vocabulary of the claims, independent of the code's definitions
DayName(t) ==
    <<"Mon", "Tue", "Wed", "Thu", "Fri", "Sat", "Sun">>[((t \div TicksPerDay) % 7) + 1]

\* minutes since midnight, as a number of ticks
MinuteTicks(h, m) == (60 * h + m) * TicksPerMinute
TimeOfDay(t) == t % TicksPerDay

InsideWindow(t) ==
    /\ DayName(t) \in {"Tue", "Wed", "Thu"}
    /\ MinuteTicks(10, 0) <= TimeOfDay(t)
    /\ TimeOfDay(t) <= MinuteTicks(23, 59)

IsTuesdayAt10(t) == DayName(t) = "Tue" /\ TimeOfDay(t) = MinuteTicks(10, 0)

\* the positions inside process_mailbox
InCall ==
    pc \in {"connect", "login", "select", "search", "for_msg", "fetch_labels",
            "fetch_body", "for_part", "write_staging", "decrypt", "store"}

\* the events of the current call
Events == {trace[i] : i \in 1..Len(trace)}

\* the current call has returned after running its loop over the candidates
LoopCompleted == pc = "returned" /\ Ev("search", 0, 0) \in Events

Marked(ls) == GMAIL_PROCESSED_LABEL \in ls

Eligible(a) == a.filename \in {FN_a_pdf, FN_b_PDF}

Attempted(m, p) ==
    Ev("decrypt_ok", m, p) \in Events \/ Ev("decrypt_fail", m, p) \in Events

\* ---- C1: idempotence.  When a call of process_mailbox returns, the call
\* before it returned success, and no message arrived since that earlier
\* call started (nothing but process_mailbox changes labels), then this call
\* returns found-nothing and leaves the sink with the files it found there.
SecondCallAfterSuccess ==
    /\ pc = "returned"
    /\ prevResult = "True"
    /\ prevCount = Len(mailbox)

C1_Idempotent ==
    SecondCallAfterSuccess => (result = "False" /\ sink = prevSink)

\* a second call that had a message left to try again
C1_Witness ==
    /\ SecondCallAfterSuccess
    /\ result = "False"
    /\ \E m \in 1..Len(mailbox) : Ev("decrypt_fail", m, 1) \in Events

\* ---- C2: no double-processing.  Over any sequence of calls, calls that end
\* in an error and restarts included, no attachment of any message is
\* decrypted into the sink more than once.
C2_NoDoubleProcessing == ~twice

\* ---- C3: failure isolation.  In a run that completes its loop, a decrypt
\* failure of attachment p of message m leaves every other eligible
\* attachment of m, and every eligible attachment of every unmarked
\* candidate examined after m, attempted in the same run; and a message
\* whose first PDF fails and whose second PDF succeeds has the second's
\* output in the sink and ends the run marked.
C3_FailureIsolation ==
    LoopCompleted =>
        \A m \in 1..Len(startLabels) : \A p \in 1..Len(mailbox[m].parts) :
            Ev("decrypt_fail", m, p) \in Events =>
                /\ \A q \in 1..Len(mailbox[m].parts) :
                       Eligible(mailbox[m].parts[q]) => Attempted(m, q)
                /\ \A k \in 1..(m - 1) : \A q \in 1..Len(mailbox[k].parts) :
                       (~Marked(startLabels[k]) /\ Eligible(mailbox[k].parts[q]))
                           => Attempted(k, q)
                /\ \A q \in 1..Len(mailbox[m].parts) :
                       Ev("decrypt_ok", m, q) \in Events =>
                           /\ mailbox[m].parts[q].filename \in sink
                           /\ Marked(mailbox[m].labels)

\* a message whose first attachment failed and whose second succeeded
C3_Witness ==
    /\ LoopCompleted
    /\ \E m \in 1..Len(startLabels) :
         /\ Ev("decrypt_fail", m, 1) \in Events
         /\ Ev("decrypt_ok", m, 2) \in Events
         /\ Marked(mailbox[m].labels)

\* ---- C4: the marker is set exactly on success.  At the end of a run that
\* completed its loop, a candidate that was unmarked at the start was taken
\* up by the run, and carries the marker if and only if one of its
\* attachments was decrypted during the run.
C4_MarkerIffSuccess ==
    LoopCompleted =>
        \A m \in 1..Len(startLabels) :
            ~Marked(startLabels[m]) =>
                /\ Ev("body", m, 0) \in Events
                /\ Marked(mailbox[m].labels) <=>
                       \E p \in 1..Len(mailbox[m].parts) :
                           Ev("decrypt_ok", m, p) \in Events

\* one message left unmarked after a failure, taken up again by the next
\* run, next to a message that was marked
C4_Witness ==
    /\ LoopCompleted
    /\ prevResult \in {"True", "False"}
    /\ \E m \in 1..Len(startLabels) :
         /\ ~Marked(startLabels[m])
         /\ Ev("decrypt_fail", m, 1) \in Events
         /\ ~Marked(mailbox[m].labels)

\* ---- C5: a marked message is never re-selected.  No body fetch, staging
\* write, decryption or label store of a call concerns a message whose
\* labels, as the mailbox returned them, contained the processed marker.
C5_MarkedNeverSelected ==
    \A e \in Events :
        e.op \in {"body", "stage", "decrypt_ok", "decrypt_fail", "store"}
            => ~Marked(startLabels[e.id])

\* a message carrying the marker among other labels was passed over
C5_Witness ==
    /\ pc = "returned"
    /\ \E m \in 1..Len(startLabels) :
         /\ startLabels[m] = {OTHER_LABEL, GMAIL_PROCESSED_LABEL}
         /\ Ev("skip", m, 0) \in Events
         /\ \A e \in Events : e.id = m => e.op = "skip"

\* ---- C6: window predicate.  The loop calls process_mailbox in an iteration
\* exactly when the time it read is a Tuesday, Wednesday or Thursday with
\* 10:00 <= time of day <= 23:59: inside a call the time read was inside the
\* window, and on the branch that skips the call it was outside.
C6_WindowPredicate ==
    /\ InCall => InsideWindow(now)
    /\ (pc = "calc_wakeup" /\ lastOutcome = "outside") => ~InsideWindow(now)

\* the call is made at Thursday 23:59:00, the last instant of the window
C6_Witness ==
    /\ pc = "connect"
    /\ DayName(now) = "Thu"
    /\ TimeOfDay(now) = MinuteTicks(23, 59)

\* ---- C7: next window start.  For a time outside the window, the wake time
\* next_valid_wakeup computes is not before that time, is inside the window,
\* and no time from that time up to the wake time is inside the window.
C7_NextWindowStart ==
    (pc = "sleep" /\ lastOutcome # "success" /\ ~InsideWindow(clock)) =>
        /\ wake >= clock
        /\ InsideWindow(wake)
        /\ \A t \in clock..(wake - 1) : ~InsideWindow(t)

\* ---- C8: done for the week.  After a successful run the wake time is the
\* first Tuesday 10:00 strictly later than the time read after the run
\* (Tuesdays 10:00 are one week apart, so it is the one at most a week
\* ahead), and the loop is back at its top, where the next call is decided,
\* no earlier than that.
C8_DoneForTheWeek ==
    /\ (pc = "sleep" /\ lastOutcome = "success") =>
           /\ IsTuesdayAt10(wake)
           /\ wake > clock
           /\ wake - clock <= TicksPerWeek
    /\ (pc = "top" /\ lastOutcome = "success") => clock >= wake

\* success on a Tuesday inside the window: the loop slept a whole week
C8_Witness ==
    /\ pc = "top"
    /\ lastOutcome = "success"
    /\ DayName(now) = "Tue"
    /\ InsideWindow(now)
    /\ clock - now > 6 * TicksPerDay

\* ---- C9: short re-poll.  After a run that found nothing, when the time
\* read after the run is still inside the window, the wake time is that time
\* plus two hours.
C9_ShortRepoll ==
    (pc = "sleep" /\ lastOutcome = "nothing" /\ InsideWindow(clock)) =>
        wake = clock + MinuteTicks(2, 0)

\* Tuesday 10:05, nothing found
C9_Witness ==
    /\ pc = "sleep"
    /\ lastOutcome = "nothing"
    /\ DayName(clock) = "Tue"
    /\ TimeOfDay(clock) = MinuteTicks(10, 5)
    /\ wake = clock + MinuteTicks(2, 0)

\* ---- C10: no mailbox access outside the window.  An iteration that reads a
\* time outside the window makes no call and sleeps until the next window
\* start: the first Tuesday, Wednesday or Thursday 10:00 that is not before
\* the time read.
WindowStartsFrom(t) ==
    { x \in { d * TicksPerDay + MinuteTicks(10, 0) :
                d \in (t \div TicksPerDay)..((t \div TicksPerDay) + 7) } :
        x >= t /\ InsideWindow(x) }

NextWindowStart(t) ==
    CHOOSE x \in WindowStartsFrom(t) : \A y \in WindowStartsFrom(t) : x <= y

C10_DormantOutsideWindow ==
    /\ (lastOutcome = "outside" /\ pc \in {"calc_wakeup", "sleep"}) =>
           (trace = <<>> /\ conn \notin {"connected", "authenticated"})
    /\ (lastOutcome = "outside" /\ pc = "sleep" /\ ~InsideWindow(clock)) =>
           wake = NextWindowStart(now)

\* ---- C11: session release.  Whenever control is back in the main loop, or
\* the loop sleeps, the connection the last call of process_mailbox opened
\* is logged out: no call leaves a connected or authenticated session
\* behind, on whatever path it ends.
BackInLoop == pc \in {"returned", "raised", "calc_wakeup", "sleep", "top"}

C11_SessionReleased ==
    BackInLoop => conn \notin {"connected", "authenticated"}

\* ---- C12: a staging write or sink write failure is handled like a decrypt
\* failure.  A failed write skips its attachment only: the call is not left
\* by an exception, and when it has returned every other eligible attachment
\* of the message and every eligible attachment of the unmarked candidates
\* after it was attempted.
C12_WriteFailureIsolated ==
    \A m \in 1..Len(startLabels) : \A p \in 1..Len(mailbox[m].parts) :
        Ev("stage_fail", m, p) \in Events =>
            /\ pc # "raised"
            /\ pc = "returned" =>
                   \A q \in 1..Len(mailbox[m].parts) :
                       (q # p /\ Eligible(mailbox[m].parts[q])) => Attempted(m, q)

\* ---- C13: errors never stop the service.  An exception of process_mailbox
\* is caught by the loop, which goes on to sleep, and the wake time is the
\* one of the normal rule: the time read after the call plus two hours while
\* that time is inside the window, the next window start otherwise.
C13_ErrorKeepsSchedule ==
    /\ pc = "raised" => lastOutcome = "none"
    /\ (pc = "sleep" /\ lastOutcome = "error") =>
           wake = IF InsideWindow(clock)
                    THEN clock + MinuteTicks(2, 0)
                    ELSE NextWindowStart(clock)

\* ---- C14: no partial output.  For every attachment a call attempted:
\* if it was decrypted, its file is in the sink and its staging file is
\* gone (unless a later attachment of the same name was staged); if the
\* attempt failed, the attempt left no file in the sink, so a file of that
\* name the call did not find there comes from a decrypted attachment.
FileName(e) == mailbox[e.id].parts[e.part].filename

C14_NoPartialOutput ==
    \A i \in 1..Len(trace) :
        LET e == trace[i] IN
        /\ e.op = "decrypt_ok" =>
               /\ FileName(e) \in sink
               /\ FileName(e) \in staging =>
                      \E j \in (i + 1)..Len(trace) :
                          trace[j].op = "stage" /\ FileName(trace[j]) = FileName(e)
        /\ (e.op = "decrypt_fail" /\ FileName(e) \in sink \ prevSink) =>
               \E j \in 1..Len(trace) :
                   trace[j].op = "decrypt_ok" /\ FileName(trace[j]) = FileName(e)

\* ---- C15: no missed window.  owedFrom is the start of the first window
\* that begins after the start of the behaviour, after the window of the
\* latest call of process_mailbox, or at the Tuesday 10:00 a success sleeps
\* to, whichever came last: the clock never passes the end of a window that
\* starts at owedFrom or later, and no sleep other than the one after a
\* success begins before a window and ends after it.
AllWindowStarts ==
    { x \in { d * TicksPerDay + MinuteTicks(10, 0) : d \in (0 - 7)..21 } :
        InsideWindow(x) }

WindowEndOf(w) == w + MinuteTicks(23, 59) - MinuteTicks(10, 0)

C15_NoMissedWindow ==
    /\ \A w \in AllWindowStarts : ~(owedFrom <= w /\ WindowEndOf(w) < clock)
    /\ (pc = "sleep" /\ lastOutcome # "success") =>
           \A w \in AllWindowStarts : ~(clock <= w /\ WindowEndOf(w) < wake)

\* the loop wakes on Thursday at 10:00 from the sleep computed after
\* Wednesday's last call, the Thursday window still to be called in
C15_Witness ==
    /\ pc = "top"
    /\ lastOutcome = "nothing"
    /\ clock = wake
    /\ DayName(clock) = "Thu"
    /\ TimeOfDay(clock) = MinuteTicks(10, 0)
    /\ owedFrom <= clock
    /\ owedFrom > clock - TicksPerDay

\* ---- C16: drain-all, newest-first.  The candidates are examined (their
\* labels fetched) in the reverse of the order of the search, which returns
\* the ids 1..n in rising order; when the run has completed its loop every
\* candidate was examined, and of every candidate found unmarked the body
\* was fetched and every eligible attachment attempted, whether or not an
\* attachment had been decrypted before.
IsExamination(e) == e.op \in {"skip", "labels"}

Examined == SelectSeq(trace, IsExamination)

C17_RunOutcome ==
    pc = "returned" =>
        /\ result \in {"True", "False"}
        /\ result = "True" <=> \E e \in Events : e.op = "decrypt_ok"
        /\ Ev("search", 0, 0) \notin Events => result = "False"

\* success from the newest message, a failure on the oldest, examined last
C17_Witness ==
    /\ pc = "returned"
    /\ result = "True"
    /\ Len(startLabels) > 1
    /\ \E p \in 1..Len(mailbox[Len(startLabels)].parts) :
         Ev("decrypt_ok", Len(startLabels), p) \in Events
    /\ Ev("decrypt_fail", 1, 1) \in Events
    /\ \A e \in Events : e.id = 1 => e.op # "decrypt_ok"

\* ---- C18: marker ordering.  Within a call, the store of the marker on a
\* message comes after the attempt of every eligible attachment of that
\* message, no attachment of the message is staged or attempted after it,
\* and the call stores it on the message once, on a message it found
\* unmarked.  Over the calls, the marker is stored only on a message that
\* does not carry it, and a message that carries it keeps it: so it is
\* stored on a message at most once.
StoredInOrder ==
    \A i \in 1..Len(trace) :
        trace[i].op = "store" =>
            LET m == trace[i].id IN
            /\ ~Marked(startLabels[m])
            /\ \A p \in 1..Len(mailbox[m].parts) :
                   Eligible(mailbox[m].parts[p]) =>
                       \E j \in 1..(i - 1) :
                           /\ trace[j].id = m
                           /\ trace[j].part = p
                           /\ trace[j].op \in {"decrypt_ok", "decrypt_fail"}
            /\ \A j \in (i + 1)..Len(trace) : trace[j].id # m

StoresMarker(m) ==
    /\ Len(trace') > Len(trace)
    /\ \E j \in (Len(trace) + 1)..Len(trace') : trace'[j] = Ev("store", m, 0)

StoredOnce ==
    \A m \in 1..Len(mailbox) :
        /\ StoresMarker(m) =>
               (~Marked(mailbox[m].labels) /\ Marked(mailbox'[m].labels))
        /\ Marked(mailbox[m].labels) => Marked(mailbox'[m].labels)

C18_MarkerOrdering == [](StoredInOrder) /\ [][StoredOnce]_vars

\* a later call that marks a message with two eligible attachments after
\* both attempts, and passes over a message marked before
C18_Witness ==
    /\ LoopCompleted
    /\ prevResult \in {"True", "False"}
    /\ \E m, k \in 1..Len(startLabels) :
         /\ Marked(startLabels[k])
         /\ Ev("skip", k, 0) \in Events
         /\ Len(mailbox[m].parts) = 2
         /\ Attempted(m, 1)
         /\ Attempted(m, 2)
         /\ Ev("store", m, 0) \in Events

\* ---- C19: attachments that are no PDF are inert.  Only attachments whose
\* name ends in .pdf in some letter case are staged or handed to qpdf; no
\* file named after another attachment is in staging or in the sink; the
\* marker is stored on a message, and True returned, only when an eligible
\* attachment was decrypted; the step over another attachment moves the
\* iterator and nothing else, so it raises nothing; and in a run that
\* completes, every eligible attachment of an unmarked candidate, b.PDF
\* included, is attempted.
OnlyEligibleHandled ==
    /\ \A e \in Events :
           e.op \in {"stage", "stage_fail", "decrypt_ok", "decrypt_fail"} =>
               Eligible(mailbox[e.id].parts[e.part])
    /\ (sink \cup staging) \cap {FN_c_txt, FN_none} = {}
    /\ \A e \in Events :
           e.op = "store" =>
               \E p \in 1..Len(mailbox[e.id].parts) :
                   /\ Eligible(mailbox[e.id].parts[p])
                   /\ Ev("decrypt_ok", e.id, p) \in Events
    /\ (pc = "returned" /\ result = "True") =>
           \E e \in Events :
               e.op = "decrypt_ok" /\ Eligible(mailbox[e.id].parts[e.part])
    /\ LoopCompleted =>
           \A m \in 1..Len(startLabels) : \A p \in 1..Len(mailbox[m].parts) :
               (~Marked(startLabels[m]) /\ Eligible(mailbox[m].parts[p]))
                   => Attempted(m, p)

AtOtherAttachment ==
    /\ pc = "for_part"
    /\ part_idx <= Len(parts)
    /\ ~Eligible(parts[part_idx])

SteppedOver ==
    AtOtherAttachment =>
        \/ /\ pc' = "for_part"
           /\ part_idx' = part_idx + 1
           /\ UNCHANGED <<worldVars, file_processed_in_msg, processed_any,
                          result, trace, msg_id>>
        \/ pc' = "idle"

C19_NonPdfInert == [](OnlyEligibleHandled) /\ [][SteppedOver]_vars

\* a run that went through a message of a text part and a part without
\* name, left it unmarked, and decrypted a b.PDF of another message
C19_Witness ==
    /\ LoopCompleted
    /\ \E m, k \in 1..Len(startLabels) :
         /\ \A p \in 1..Len(mailbox[m].parts) : ~Eligible(mailbox[m].parts[p])
         /\ Len(mailbox[m].parts) = 2
         /\ Ev("body", m, 0) \in Events
         /\ ~Marked(mailbox[m].labels)
         /\ \E q \in 1..Len(mailbox[k].parts) :
              /\ mailbox[k].parts[q].filename = FN_b_PDF
              /\ Ev("decrypt_ok", k, q) \in Events

\* ---- C20: the marker is the only reason to skip.  A call skips a message
\* only if the processed label is one of the labels the message had when
\* the call began; when the call has completed its loop, the body of every
\* other candidate was fetched and each of its eligible attachments
\* attempted, whatever other labels it has.
C20_MarkerOnlyReasonToSkip ==
    /\ \A e \in Events : e.op = "skip" => Marked(startLabels[e.id])
    /\ LoopCompleted =>
           \A m \in 1..Len(startLabels) :
               ~Marked(startLabels[m]) =>
                   /\ Ev("body", m, 0) \in Events
                   /\ \A p \in 1..Len(mailbox[m].parts) :
                          Eligible(mailbox[m].parts[p]) => Attempted(m, p)

====
